---------------------------- MODULE Spec2Model ----------------------------
(***************************************************************************)
(* A model of bf-jit: the compiler (Program::from_source, optimize_loops,  *)
(* count_occ) of src/src/parser.rs and src/src/main.rs, and the two        *)
(* execution loops (interpreter.rs interpret, main.rs Program::execute),   *)
(* and allocate_code of src/src/jit.rs with the caller of its result.      *)
(*                                                                         *)
(* Program counters and jump targets are 0-based as in the code; TLA+      *)
(* sequences are 1-based, so the opcode at pc is instructions[pc + 1].     *)
(***************************************************************************)
EXTENDS Integers, Sequences, FiniteSets, TLC

VARIABLES
    source,          \* from_source's argument, a sequence of characters
    overflow_checks, \* the build: TRUE = overflow checks on (dev/test profile), FALSE = off (release)
    source_iter,     \* index of the next unread character of source (the Peekable<Chars>)
    instructions,    \* Vec<Opcode> under construction
    bracket_stack,   \* Vec<usize> of open-bracket positions
    outcome,         \* "scanning" | "ok" | "panic_close" | "panic_open" | "panic_overflow"
    err_pc,          \* the pc printed by the panic message (-1 when none)
    err_src,         \* history: index in source of the character being handled when the panic was raised (0 = none / end of input)
    open_at,         \* history: set of <<index in source of a '[' , position pushed for it>>
    engine,          \* which execution loop runs: "interpret" (interpreter.rs) or "execute" (main.rs); "none" while compiling
    mach,            \* the execution of the compiled Program: memory, pc, data_ptr, stdin, out, status
    plain,           \* the same source translated with the loop optimizer switched off
    ref,             \* the execution of plain, by the same loop
    turn,            \* whose step is next: "opt" (mach) or "ref"
    regions,         \* every region mmap has created, in order of creation: addr, len, prot, bytes, mapped; code and unmaps are history
    load,            \* the allocate_code call in progress: its position, its argument code and its local p (index in regions)
    handles,         \* the regions whose pointer the caller of allocate_code holds
    dropped,         \* history: the regions whose pointer was returned and has since gone out of scope
    results,         \* history: how each allocate_code call ended
    last_call        \* the last call through a returned pointer and what it met

cvars == <<source, overflow_checks, source_iter, instructions, bracket_stack,
           outcome, err_pc, err_src, open_at>>

rvars == <<engine, mach, plain, ref, turn>>

jvars == <<regions, load, handles, dropped, results, last_call>>

vars == <<cvars, rvars, jvars>>

----------------------------------------------------------------------------
(* Bounds of the model *)

\* longest source of the exhaustive family
MaxSrcLen == 4
\* longest cursor run inside the generated loop idioms
MaxStride == 3
\* how far past the u8 range the long runs go (runs of U8_MAX .. U8_MAX + MaxOver symbols)
MaxOver == 2
\* longest source of the exhaustive family of executed programs
MaxRunLen == 3
\* bytes of output after which an execution is cut off
MaxOut == 4
\* number of allocate_code calls followed
MaxLoads == 3
\* number of page addresses the platform can hand out
MaxPages == 2

(* Program constants *)

\* largest value of the u8 run-length counter
U8_MAX == 255
\* number of cells of the tape
MEMORY_SIZE == 30000

----------------------------------------------------------------------------
(* Opcode model *)

Op(o, k, p) == [op |-> o, n |-> k, positive |-> p]

IncPtr(k) == Op("IncPtr", k, TRUE)
DecPtr(k) == Op("DecPtr", k, TRUE)
IncData(k) == Op("IncData", k, TRUE)
DecData(k) == Op("DecData", k, TRUE)
ReadStdin == Op("ReadStdin", 0, TRUE)
WriteStdout == Op("WriteStdout", 0, TRUE)
LoopSetToZero == Op("LoopSetToZero", 0, TRUE)
LoopMovePtr(k, p) == Op("LoopMovePtr", k, p)
LoopMoveData(k, p) == Op("LoopMoveData", k, p)
JumpIfDataZero(t) == Op("JumpIfDataZero", t, TRUE)
JumpIfDataNotZero(t) == Op("JumpIfDataNotZero", t, TRUE)

\* Option::None of optimize_loops
NoneOp == Op("None", 0, TRUE)

RunSyms == {">", "<", "+", "-"}

InsnChars == {">", "<", "+", "-", ".", ",", "[", "]"}

----------------------------------------------------------------------------
(* count_occ: count the run of val, starting from 1 for the symbol already *)
(* consumed, and leave the iterator at the first character that differs.   *)
(* count is a u8: the `count += 1` that would pass 255 panics when the     *)
(* build checks overflow and wraps modulo 256 when it does not.            *)

\* RunEnd with the characters outside the alphabet taken into the run
RunEnd_SkipsOthers(val, src, i) ==
    LET stops == {j \in i..Len(src) : src[j] # val /\ src[j] \in InsnChars}
                 \cup {Len(src) + 1}
    IN CHOOSE j \in stops : \A k \in stops : j <= k

\* index of the first character at or after i that is not val (Len + 1 when none)
RunEnd(val, src, i) ==
    LET stops == {j \in i..Len(src) : src[j] # val} \cup {Len(src) + 1}
    IN CHOOSE j \in stops : \A k \in stops : j <= k

count_occ(val, src, i, checks) ==
    LET end == RunEnd(val, src, i)
        steps == end - i
    IN IF 1 + steps > U8_MAX /\ checks
       THEN [count |-> U8_MAX, next |-> i + U8_MAX, panic |-> TRUE]
       ELSE [count |-> (1 + steps) % (U8_MAX + 1), next |-> end, panic |-> FALSE]

\* the run-length opcode built for a run symbol
RunOpcode(c, k) ==
    CASE c = ">" -> IncPtr(k)
      [] c = "<" -> DecPtr(k)
      [] c = "+" -> IncData(k)
      [] c = "-" -> DecData(k)

\* optimize_loops without its first arm
optimize_loops_NoZeroArm(insn) ==
    CASE Len(insn) = 4 /\ insn[1] = DecData(1) /\ insn[2].op = "IncPtr"
            /\ insn[3] = IncData(1) /\ insn[4].op = "DecPtr"
            /\ insn[2].n = insn[4].n -> LoopMoveData(insn[2].n, TRUE)
      [] Len(insn) = 4 /\ insn[1] = DecData(1) /\ insn[2].op = "DecPtr"
            /\ insn[3] = IncData(1) /\ insn[4].op = "IncPtr"
            /\ insn[2].n = insn[4].n -> LoopMoveData(insn[2].n, FALSE)
      [] Len(insn) = 1 /\ insn[1].op = "IncPtr" -> LoopMovePtr(insn[1].n, TRUE)
      [] Len(insn) = 1 /\ insn[1].op = "DecPtr" -> LoopMovePtr(insn[1].n, FALSE)
      [] OTHER -> NoneOp

(* optimize_loops: match the slice between a bracket pair *)
optimize_loops(insn) ==
    CASE Len(insn) = 1 /\ insn[1] = DecData(1) -> LoopSetToZero
      [] Len(insn) = 4 /\ insn[1] = DecData(1) /\ insn[2].op = "IncPtr"
            /\ insn[3] = IncData(1) /\ insn[4].op = "DecPtr"
            /\ insn[2].n = insn[4].n -> LoopMoveData(insn[2].n, TRUE)
      [] Len(insn) = 4 /\ insn[1] = DecData(1) /\ insn[2].op = "DecPtr"
            /\ insn[3] = IncData(1) /\ insn[4].op = "IncPtr"
            /\ insn[2].n = insn[4].n -> LoopMoveData(insn[2].n, FALSE)
      [] Len(insn) = 1 /\ insn[1].op = "IncPtr" -> LoopMovePtr(insn[1].n, TRUE)
      [] Len(insn) = 1 /\ insn[1].op = "DecPtr" -> LoopMovePtr(insn[1].n, FALSE)
      [] OTHER -> NoneOp

\* Replace with the truncation one opcode too far
Replace_TruncatesOneMore(insns, opening_pc, loop_insn) ==
    Append(SubSeq(insns, 1, opening_pc - 1), loop_insn)

\* the open marker of a loop replaced by its optimized opcode
Replace(insns, opening_pc, loop_insn) ==
    Append(SubSeq(insns, 1, opening_pc), loop_insn)

\* Resolve without the back-patch of the open marker
Resolve_NoBackPatch(insns, opening_pc, closing_pc) ==
    Append(insns, JumpIfDataNotZero(opening_pc))

\* the open marker back-patched and the close emitted
Resolve(insns, opening_pc, closing_pc) ==
    Append([insns EXCEPT ![opening_pc + 1] = JumpIfDataZero(closing_pc)],
           JumpIfDataNotZero(opening_pc))

\* the depth of the stack reported in place of a position
UnmatchedOpenPc_Depth(stack) == Len(stack)

\* the position reported for an unmatched '['
UnmatchedOpenPc(stack) == stack[1]

(* One iteration of from_source's `while source_iter.peek().is_some()`     *)
(* loop, on the compiler state st.  st.optimise is TRUE in the program;    *)
(* it is FALSE only in the unoptimized reference translation.              *)
Panic(st, kind, pc, at) ==
    [st EXCEPT !.outcome = kind, !.err_pc = pc, !.err_src = at]

\* CloseBracket with the slice taken from the open marker itself
CloseBracket_SliceFromMarker(st, at) ==
    LET closing_pc == Len(st.instructions)
    IN IF st.bracket_stack = <<>>
       THEN Panic(st, "panic_close", closing_pc, at)
       ELSE LET opening_pc == st.bracket_stack[Len(st.bracket_stack)]
                loop_slice == SubSeq(st.instructions, opening_pc + 1, Len(st.instructions))
                optimized_loop == IF st.optimise THEN optimize_loops(loop_slice) ELSE NoneOp
            IN [st EXCEPT
                  !.bracket_stack = SubSeq(st.bracket_stack, 1, Len(st.bracket_stack) - 1),
                  !.instructions =
                      IF optimized_loop # NoneOp
                      THEN Replace(st.instructions, opening_pc, optimized_loop)
                      ELSE Resolve(st.instructions, opening_pc, closing_pc)]

CloseBracket(st, at) ==
    LET closing_pc == Len(st.instructions)
    IN IF st.bracket_stack = <<>>
       THEN Panic(st, "panic_close", closing_pc, at)
       ELSE LET opening_pc == st.bracket_stack[Len(st.bracket_stack)]
                loop_slice == SubSeq(st.instructions, opening_pc + 2, Len(st.instructions))
                optimized_loop == IF st.optimise THEN optimize_loops(loop_slice) ELSE NoneOp
            IN [st EXCEPT
                  !.bracket_stack = SubSeq(st.bracket_stack, 1, Len(st.bracket_stack) - 1),
                  !.instructions =
                      IF optimized_loop # NoneOp
                      THEN Replace(st.instructions, opening_pc, optimized_loop)
                      ELSE Resolve(st.instructions, opening_pc, closing_pc)]

LoopIter(src, checks, st0) ==
    LET at == st0.source_iter
        c == src[at]
        st == [st0 EXCEPT !.source_iter = at + 1]
    IN IF c \in RunSyms
       THEN LET r == count_occ(c, src, at + 1, checks)
            IN IF r.panic
               THEN Panic([st EXCEPT !.source_iter = r.next], "panic_overflow", -1, at)
               ELSE [st EXCEPT !.source_iter = r.next,
                               !.instructions = Append(@, RunOpcode(c, r.count))]
       ELSE IF c = "," THEN [st EXCEPT !.instructions = Append(@, ReadStdin)]
       ELSE IF c = "." THEN [st EXCEPT !.instructions = Append(@, WriteStdout)]
       ELSE IF c = "["
       THEN [st EXCEPT !.bracket_stack = Append(@, Len(st.instructions)),
                       !.instructions = Append(@, JumpIfDataZero(Len(st.instructions))),
                       !.open_at = @ \cup {<<at, Len(st.instructions)>>}]
       ELSE IF c = "]" THEN CloseBracket(st, at)
       ELSE st

\* the end of from_source: "ensure we closed all loops"
AtEnd(st) ==
    IF st.bracket_stack # <<>>
    THEN Panic(st, "panic_open", UnmatchedOpenPc(st.bracket_stack), 0)
    ELSE [st EXCEPT !.outcome = "ok"]

CompStart ==
    [source_iter |-> 1, instructions |-> <<>>, bracket_stack |-> <<>>,
     outcome |-> "scanning", err_pc |-> -1, err_src |-> 0, open_at |-> {},
     optimise |-> TRUE]

RECURSIVE CompRun(_, _, _)
CompRun(src, checks, st) ==
    IF st.outcome # "scanning" THEN st
    ELSE IF st.source_iter > Len(src) THEN AtEnd(st)
    ELSE CompRun(src, checks, LoopIter(src, checks, st))

\* Program::from_source as a function of the source and the build
from_source(src, checks) == CompRun(src, checks, CompStart)

\* the translation of the same source with every bracket pair kept as jumps
plain_from_source(src, checks) ==
    CompRun(src, checks, [CompStart EXCEPT !.optimise = FALSE])

----------------------------------------------------------------------------
(* The execution loops: interpret (interpreter.rs) and Program::execute    *)
(* (main.rs).  They differ only in LoopMoveData.                           *)
(*                                                                         *)
(* memory is [0_u8; MEMORY_SIZE], kept as the function from the indices of *)
(* its non-zero cells to their values.  data_ptr is a usize, kept as its   *)
(* representative in (-2^63, 2^63): a negative value d stands for the      *)
(* wrapped 2^64 + d.  Indexing memory is bounds-checked by the language:   *)
(* an index outside 0 .. MEMORY_SIZE - 1 panics.                           *)

Cell(mem, i) == IF i \in DOMAIN mem THEN mem[i] ELSE 0

Store(mem, i, v) ==
    IF v = 0
    THEN [j \in DOMAIN mem \ {i} |-> mem[j]]
    ELSE [j \in DOMAIN mem \cup {i} |-> IF j = i THEN v ELSE mem[j]]

InTape(i) == i >= 0 /\ i < MEMORY_SIZE

\* an add that stops at 255
wrapping_add_Saturating(v, k) == IF v + k > U8_MAX THEN U8_MAX ELSE v + k

\* u8::wrapping_add and u8::wrapping_sub
wrapping_add(v, k) == (v + k) % (U8_MAX + 1)
wrapping_sub(v, k) == (v - k + (U8_MAX + 1)) % (U8_MAX + 1)

\* the bytes print!("{}", v as char) writes: the UTF-8 encoding of U+0000 .. U+00FF
CharBytes(v) == IF v < 128 THEN <<v>> ELSE <<192 + (v \div 64), 128 + (v % 64)>>

\* read_byte with the end of input read as 255
read_byte_EofIs255(stdin) ==
    IF stdin = <<>> THEN U8_MAX
    ELSE IF Head(stdin) \in 0..U8_MAX THEN Head(stdin) ELSE 0

\* read_byte: stdin is the sequence of results of the successive
\* stdin().read(&mut buf) calls: a byte b stands for Ok(1) with buf[0] = b,
\* any other element for an Err, and the empty sequence for Ok(0) (end of
\* input) from then on.  Ok(1) gives the byte, every other result gives 0.
read_byte(stdin) ==
    IF stdin = <<>> THEN 0
    ELSE IF Head(stdin) \in 0..U8_MAX THEN Head(stdin) ELSE 0

Stop(m, how) == [m EXCEPT !.status = how]

\* every access memory[data_ptr]
Indexed(m, then) == IF InTape(m.data_ptr) THEN then ELSE Stop(m, "panic_index")

\* data_ptr += count / data_ptr -= count on usize
MovePtr(m, count, positive, checks) ==
    IF positive
    THEN [m EXCEPT !.data_ptr = m.data_ptr + count]
    ELSE IF checks /\ m.data_ptr - count < 0
         THEN Stop(m, "panic_overflow")
         ELSE [m EXCEPT !.data_ptr = m.data_ptr - count]

\* LoopMovePtr with an `if` in place of the `while`
ShiftLoop_Once(m, stride, positive, checks) ==
    IF ~InTape(m.data_ptr) THEN Stop(m, "panic_index")
    ELSE IF Cell(m.memory, m.data_ptr) = 0 THEN m
    ELSE MovePtr(m, stride, positive, checks)

\* LoopMovePtr: while memory[data_ptr] != 0 { data_ptr +/-= stride }
RECURSIVE ShiftLoop(_, _, _, _)
ShiftLoop(m, stride, positive, checks) ==
    IF ~InTape(m.data_ptr) THEN Stop(m, "panic_index")
    ELSE IF Cell(m.memory, m.data_ptr) = 0 THEN m
    ELSE IF stride = 0 THEN Stop(m, "hang")
    ELSE LET moved == MovePtr(m, stride, positive, checks)
         IN IF moved.status # "running" THEN moved
            ELSE ShiftLoop(moved, stride, positive, checks)

\* memory[new_addr] += memory[data_ptr]; memory[data_ptr] = 0
Transfer(m, stride, positive, checks) ==
    LET to == MovePtr(m, stride, positive, checks)
        new_addr == to.data_ptr
        sum == Cell(m.memory, new_addr) + Cell(m.memory, m.data_ptr)
    IN IF to.status # "running" THEN to
       ELSE IF ~InTape(m.data_ptr) \/ ~InTape(new_addr) THEN Stop(m, "panic_index")
       ELSE IF sum > U8_MAX /\ checks THEN Stop(m, "panic_overflow")
       ELSE [m EXCEPT !.memory =
                Store(Store(m.memory, new_addr, sum % (U8_MAX + 1)), m.data_ptr, 0)]

\* the LoopMoveData arm of interpret (interpreter.rs): guarded by the source cell
MoveDataInterpret(m, stride, positive, checks) ==
    Indexed(m, IF Cell(m.memory, m.data_ptr) # 0
               THEN Transfer(m, stride, positive, checks)
               ELSE m)

\* the LoopMoveData arm of Program::execute (main.rs): no guard
MoveDataExecute(m, stride, positive, checks) == Transfer(m, stride, positive, checks)

\* the match on the fetched opcode
Effect(eng, checks, insn, m) ==
    CASE insn.op = "IncPtr" -> MovePtr(m, insn.n, TRUE, checks)
      [] insn.op = "DecPtr" -> MovePtr(m, insn.n, FALSE, checks)
      [] insn.op = "IncData" ->
            Indexed(m, [m EXCEPT !.memory =
                Store(@, m.data_ptr, wrapping_add(Cell(@, m.data_ptr), insn.n))])
      [] insn.op = "DecData" ->
            Indexed(m, [m EXCEPT !.memory =
                Store(@, m.data_ptr, wrapping_sub(Cell(@, m.data_ptr), insn.n))])
      [] insn.op = "WriteStdout" ->
            Indexed(m, [m EXCEPT !.out = @ \o CharBytes(Cell(m.memory, m.data_ptr))])
      [] insn.op = "ReadStdin" ->
            Indexed(m, [m EXCEPT !.memory = Store(@, m.data_ptr, read_byte(m.stdin)),
                                 !.stdin = IF @ = <<>> THEN @ ELSE Tail(@)])
      [] insn.op = "LoopSetToZero" ->
            Indexed(m, [m EXCEPT !.memory = Store(@, m.data_ptr, 0)])
      [] insn.op = "LoopMovePtr" -> ShiftLoop(m, insn.n, insn.positive, checks)
      [] insn.op = "LoopMoveData" ->
            IF eng = "interpret"
            THEN MoveDataInterpret(m, insn.n, insn.positive, checks)
            ELSE MoveDataExecute(m, insn.n, insn.positive, checks)
      [] insn.op = "JumpIfDataZero" ->
            Indexed(m, IF Cell(m.memory, m.data_ptr) = 0 THEN [m EXCEPT !.pc = insn.n] ELSE m)
      [] insn.op = "JumpIfDataNotZero" ->
            Indexed(m, IF Cell(m.memory, m.data_ptr) # 0 THEN [m EXCEPT !.pc = insn.n] ELSE m)

\* ExecStep with a taken jump landing on its target
ExecStep_JumpLandsOnTarget(eng, checks, prog, m) ==
    LET after == Effect(eng, checks, prog[m.pc + 1], m)
    IN IF after.status # "running" THEN after
       ELSE [after EXCEPT !.pc = IF after.pc # m.pc THEN after.pc ELSE after.pc + 1,
                          !.strayed = @ \/ ~InTape(after.data_ptr)]

\* one iteration of `while pc < instructions.len()`: fetch, match, pc += 1
ExecStep(eng, checks, prog, m) ==
    LET after == Effect(eng, checks, prog[m.pc + 1], m)
    IN IF after.status # "running" THEN after
       ELSE [after EXCEPT !.pc = after.pc + 1,
                          !.strayed = @ \/ ~InTape(after.data_ptr)]

\* memory, pc and data_ptr as the loops declare them; strayed is history:
\* whether some executed opcode left data_ptr outside the tape
MachStart(input) ==
    [memory |-> <<>>, pc |-> 0, data_ptr |-> 0, stdin |-> input, out |-> <<>>,
     status |-> "running", strayed |-> FALSE]

MachIdle == [MachStart(<<>>) EXCEPT !.status = "idle"]

----------------------------------------------------------------------------
(* The sources the model compiles *)

Rep(c, k) == [i \in 1..k |-> c]

Alphabet == InsnChars \cup {"x"}

ShortSources == UNION {[1..k -> Alphabet] : k \in 0..MaxSrcLen}

Moves == {">", "<"}

\* a decrement, a move, an increment, a move: the shape of the transfer idiom
TransferBodies ==
    {Rep("-", a) \o Rep(m1, k1) \o Rep("+", b) \o Rep(m2, k2) :
        a \in 1..2, b \in 1..2, k1 \in 1..MaxStride, k2 \in 1..MaxStride,
        m1 \in Moves, m2 \in Moves}

StrideBodies == {Rep(m, k) : m \in Moves, k \in 1..MaxStride}

LoopBodies == TransferBodies \cup StrideBodies \cup {<<"-">>, <<"-", "-">>, <<"+">>, <<>>}

Before == {<<>>, <<">", ">", ">">>, <<"[">>, <<"[", "-", "]">>, <<"x">>}

After == {<<>>, <<"]">>, <<"+">>, <<"[">>}

IdiomSources ==
    {p \o <<"[">> \o b \o <<"]">> \o q : p \in Before, b \in LoopBodies, q \in After}

SpacedSources ==
    {<<"[">> \o Rep(m, k1) \o <<"x">> \o Rep(m, k2) \o <<"]">> :
        m \in RunSyms, k1 \in 1..2, k2 \in 1..2}

LongLens == {U8_MAX + d : d \in 0..MaxOver}

LongSources ==
    {Rep(c, k) : c \in RunSyms, k \in LongLens}
    \cup {<<"[">> \o Rep(c, k) \o <<"]">> : c \in RunSyms, k \in LongLens}
    \cup {<<"[", "-">> \o Rep(">", k1) \o <<"+">> \o Rep("<", k2) \o <<"]">> :
            k1 \in LongLens \cup {1}, k2 \in LongLens \cup {1}}

Sources == ShortSources \cup IdiomSources \cup SpacedSources \cup LongSources

(* The programs the model executes, and their inputs *)

ShortPrograms == UNION {[1..k -> InsnChars] : k \in 0..MaxRunLen}

\* decrement by 1, a move, increment by 1, a move
UnitTransfers ==
    {b \in TransferBodies :
        b[1] = "-" /\ b[2] # "-" /\ Cardinality({i \in DOMAIN b : b[i] = "+"}) = 1}

\* the bodies optimize_loops replaces, and one it does not
IdiomBodies ==
    {b \in UnitTransfers : optimize_loops(from_source(b, FALSE).instructions) # NoneOp}
    \cup StrideBodies \cup {<<"-">>, <<".">>}

\* transfer-shaped bodies whose moves do not cancel
OddBodies == UnitTransfers \ IdiomBodies

Setups ==
    {<<>>, <<"+">>, <<"+", ">", "-", "<">>, <<">", "+">>, <<"-", ">", "+">>,
     <<",">>, <<",", ">", ",", "<">>}

Tails == {<<>>, <<".">>, <<">", ".">>}

LoopPrograms ==
    {s \o <<"[">> \o b \o <<"]">> \o t : s \in Setups, b \in IdiomBodies, t \in Tails}
    \cup {s \o <<"[">> \o b \o <<"]">> :
            s \in {<<>>, <<"+">>, <<">", "+">>}, b \in OddBodies}

\* a program that walks the cursor to the right end of the tape
EdgePrograms == {<<"+", "[", "-", ">", "+", "]">>}

RunSources == ShortPrograms \cup LoopPrograms

\* -1 is a read that fails
Inputs == {<<>>, <<1>>, <<2, 255>>, <<-1, 7>>}

Engines == {"interpret", "execute"}

----------------------------------------------------------------------------
(* allocate_code (jit.rs) and the platform calls it makes.  A region is    *)
(* the record of one successful mmap; prot is its set of PROT_ flags.      *)

\* a mapping that is writable and executable from the start
MmapProt_Rwx == {"R", "W", "X"}

\* PROT_READ | PROT_WRITE, the protection allocate_code asks mmap for
MmapProt == {"R", "W"}

\* PROT_READ | PROT_EXEC, the protection allocate_code asks mprotect for
CodeProt == {"R", "X"}

\* the code bytes: none, `ret`, and the function of test_jit_execution
Codes == {<<>>, <<195>>, <<137, 248, 1, 240, 209, 224, 195>>}

Pages == 1..MaxPages

\* the addresses no mapped region occupies
FreePages == Pages \ {regions[r].addr : r \in {r \in 1..Len(regions) : regions[r].mapped}}

\* a fresh MAP_PRIVATE | MAP_ANON mapping: zero-filled
Mapping(code, addr) ==
    [addr |-> addr, len |-> Len(code), prot |-> MmapProt,
     bytes |-> [i \in 1..Len(code) |-> 0], mapped |-> TRUE, code |-> code, unmaps |-> 0]

\* ptr::copy_nonoverlapping(code.as_ptr(), p, code.len())
copy_nonoverlapping(regs, p, code) == [regs EXCEPT ![p].bytes = code]

\* a munmap that releases nothing
munmap_Leak(regs, p) == regs

\* libc::munmap(p, code.len())
munmap(regs, p) == [regs EXCEPT ![p].mapped = FALSE, ![p].unmaps = @ + 1]

LoadIdle == [at |-> "idle", code |-> <<>>, p |-> 0]

JitIdle ==
    /\ regions = <<>>
    /\ load = LoadIdle
    /\ handles = {}
    /\ dropped = {}
    /\ results = <<>>
    /\ last_call = [region |-> 0, met |-> "none"]

LoadEnded(how, p) == Append(results, [how |-> how, region |-> p])

InitJit ==
    /\ source = <<>>
    /\ overflow_checks \in BOOLEAN
    /\ source_iter = 1
    /\ instructions = <<>>
    /\ bracket_stack = <<>>
    /\ outcome = "scanning"
    /\ err_pc = -1
    /\ err_src = 0
    /\ open_at = {}
    /\ engine = "none"
    /\ mach = MachIdle
    /\ plain = <<>>
    /\ ref = MachIdle
    /\ turn = "opt"
    /\ JitIdle

\* the call, and libc::mmap: MAP_FAILED panics, a mapping goes on to the copy.
\* The platform refuses a mapping of length 0 and when no address is free, and may refuse any.
Mmap ==
    /\ load.at = "idle"
    /\ Len(results) < MaxLoads
    /\ \E code \in Codes :
        \/ /\ results' = LoadEnded("panic_mmap", 0)
           /\ UNCHANGED <<regions, load>>
        \/ /\ Len(code) > 0
           /\ \E addr \in FreePages :
                /\ regions' = Append(regions, Mapping(code, addr))
                /\ load' = [at |-> "copy", code |-> code, p |-> Len(regions) + 1]
           /\ UNCHANGED results
    /\ UNCHANGED <<cvars, rvars, handles, dropped, last_call>>

\* the copy of the code into the region
Copy ==
    /\ load.at = "copy"
    /\ regions' = copy_nonoverlapping(regions, load.p, load.code)
    /\ load' = [load EXCEPT !.at = "mprotect"]
    /\ UNCHANGED <<cvars, rvars, handles, dropped, results, last_call>>

\* libc::mprotect(p, code.len(), PROT_READ | PROT_EXEC), which the platform may refuse
Mprotect ==
    /\ load.at = "mprotect"
    /\ \/ /\ regions' = [regions EXCEPT ![load.p].prot = CodeProt]
          /\ load' = [load EXCEPT !.at = "return"]
       \/ /\ load' = [load EXCEPT !.at = "munmap"]
          /\ UNCHANGED regions
    /\ UNCHANGED <<cvars, rvars, handles, dropped, results, last_call>>

\* mprotect was refused: the region is released and allocate_code panics
MunmapAndPanic ==
    /\ load.at = "munmap"
    /\ regions' = munmap(regions, load.p)
    /\ results' = LoadEnded("panic_mprotect", load.p)
    /\ load' = LoadIdle
    /\ UNCHANGED <<cvars, rvars, handles, dropped, last_call>>

\* allocate_code returns p
Return ==
    /\ load.at = "return"
    /\ handles' = handles \cup {load.p}
    /\ results' = LoadEnded("ok", load.p)
    /\ load' = LoadIdle
    /\ UNCHANGED <<cvars, rvars, regions, dropped, last_call>>

\* the caller calls through a pointer it holds (transmute to extern "C" fn)
Invoke ==
    /\ load.at = "idle"
    /\ \E h \in handles :
          last_call' = [region |-> h,
                        met |-> IF regions[h].mapped /\ "X" \in regions[h].prot
                                THEN "code" ELSE "fault"]
    /\ UNCHANGED <<cvars, rvars, regions, load, handles, dropped, results>>

\* the pointer goes out of scope: a *mut c_void has no destructor
Drop ==
    /\ load.at = "idle"
    /\ \E h \in handles :
          /\ handles' = handles \ {h}
          /\ dropped' = dropped \cup {h}
    /\ UNCHANGED <<cvars, rvars, regions, load, results, last_call>>

NextJit == Mmap \/ Copy \/ Mprotect \/ MunmapAndPanic \/ Return \/ Invoke \/ Drop

SpecJit == InitJit /\ [][NextJit]_vars

----------------------------------------------------------------------------
(* The compiler as a state machine *)

CompState ==
    [source_iter |-> source_iter, instructions |-> instructions,
     bracket_stack |-> bracket_stack, outcome |-> outcome, err_pc |-> err_pc,
     err_src |-> err_src, open_at |-> open_at, optimise |-> TRUE]

SetComp(st) ==
    /\ source_iter' = st.source_iter
    /\ instructions' = st.instructions
    /\ bracket_stack' = st.bracket_stack
    /\ outcome' = st.outcome
    /\ err_pc' = st.err_pc
    /\ err_src' = st.err_src
    /\ open_at' = st.open_at

Init ==
    /\ source \in Sources
    /\ overflow_checks \in BOOLEAN
    /\ source_iter = 1
    /\ instructions = <<>>
    /\ bracket_stack = <<>>
    /\ outcome = "scanning"
    /\ err_pc = -1
    /\ err_src = 0
    /\ open_at = {}
    /\ engine = "none"
    /\ mach = MachIdle
    /\ plain = <<>>
    /\ ref = MachIdle
    /\ turn = "opt"
    /\ JitIdle

\* one iteration of the scanning loop
Scan ==
    /\ outcome = "scanning"
    /\ source_iter <= Len(source)
    /\ SetComp(LoopIter(source, overflow_checks, CompState))
    /\ UNCHANGED <<source, overflow_checks, rvars, jvars>>

\* the loop has ended: the check of the bracket stack and the return
Finish ==
    /\ outcome = "scanning"
    /\ source_iter > Len(source)
    /\ SetComp(AtEnd(CompState))
    /\ UNCHANGED <<source, overflow_checks, rvars, jvars>>

Next == Scan \/ Finish

Spec == Init /\ [][Next]_vars

----------------------------------------------------------------------------
(* Execution as a state machine: main() compiles the source and runs the   *)
(* Program.  The unoptimized translation of the same source is run beside  *)
(* it, on the same input, one step each in turn.                           *)

InitRun ==
    /\ source \in RunSources \cup EdgePrograms
    /\ overflow_checks \in BOOLEAN
    /\ LET st == from_source(source, overflow_checks)
       IN /\ st.outcome = "ok"
          /\ source_iter = st.source_iter
          /\ instructions = st.instructions
          /\ bracket_stack = st.bracket_stack
          /\ outcome = st.outcome
          /\ err_pc = st.err_pc
          /\ err_src = st.err_src
          /\ open_at = st.open_at
    /\ engine \in Engines
    /\ \E input \in (IF source \in EdgePrograms THEN {<<>>} ELSE Inputs) :
            mach = MachStart(input) /\ ref = MachStart(input)
    /\ plain = plain_from_source(source, overflow_checks).instructions
    /\ turn = "opt"
    /\ JitIdle

Machine(who) == IF who = "opt" THEN mach ELSE ref

Code(who) == IF who = "opt" THEN instructions ELSE plain

Other(who) == IF who = "opt" THEN "ref" ELSE "opt"

SetMachine(who, m) ==
    /\ IF who = "opt" THEN mach' = m /\ ref' = ref ELSE ref' = m /\ mach' = mach
    /\ turn' = IF Machine(Other(who)).status = "running" THEN Other(who) ELSE who
    /\ UNCHANGED <<cvars, engine, plain, jvars>>

\* one iteration of the execution loop
Exec ==
    \E who \in {"opt", "ref"} :
        /\ turn = who
        /\ Machine(who).status = "running"
        /\ Machine(who).pc < Len(Code(who))
        /\ Len(Machine(who).out) < MaxOut
        /\ SetMachine(who, ExecStep(engine, overflow_checks, Code(who), Machine(who)))

\* the loop condition fails: the run is over
Halt ==
    \E who \in {"opt", "ref"} :
        /\ turn = who
        /\ Machine(who).status = "running"
        /\ Machine(who).pc >= Len(Code(who))
        /\ SetMachine(who, Stop(Machine(who), "done"))

\* the model follows an execution no further than MaxOut bytes of output
Cut ==
    \E who \in {"opt", "ref"} :
        /\ turn = who
        /\ Machine(who).status = "running"
        /\ Machine(who).pc < Len(Code(who))
        /\ Len(Machine(who).out) >= MaxOut
        /\ SetMachine(who, Stop(Machine(who), "cut"))

NextRun == Exec \/ Halt \/ Cut

SpecRun == InitRun /\ [][NextRun]_vars

----------------------------------------------------------------------------
(* Reading the source independently of the compiler *)

\* the source with every character outside the alphabet removed
InAlphabet(c) == c \in InsnChars

Strip(src) == SelectSeq(src, InAlphabet)

\* '[' minus ']' among the first i characters
Depth(src, i) ==
    Cardinality({k \in 1..i : src[k] = "["}) - Cardinality({k \in 1..i : src[k] = "]"})

Balanced(src) ==
    /\ \A i \in 1..Len(src) : Depth(src, i) >= 0
    /\ Depth(src, Len(src)) = 0

\* indices of the ']' that close more than was opened
StrayCloses(src) == {j \in 1..Len(src) : Depth(src, j) < 0}

\* the '[' at i is never closed
UnmatchedOpen(src, i) ==
    /\ src[i] = "["
    /\ \A j \in i..Len(src) : Depth(src, j) >= Depth(src, i)

\* two identical run symbols with only ignored characters (at least one) between them
SplitRun(src) ==
    \E i \in 1..Len(src), j \in 1..Len(src) :
        /\ i + 1 < j
        /\ src[i] \in RunSyms
        /\ src[j] = src[i]
        /\ \A k \in (i + 1)..(j - 1) : src[k] \notin InsnChars

Ended == outcome # "scanning"

IsJump(insn) == insn.op \in {"JumpIfDataZero", "JumpIfDataNotZero"}

\* what from_source hands to its caller: the Program, or the panic and its pc
Returned(st) ==
    [outcome |-> st.outcome, err_pc |-> st.err_pc,
     program |-> IF st.outcome = "ok" THEN st.instructions ELSE <<>>]

----------------------------------------------------------------------------
(* The scanner at a ']' that has an open partner *)

AtClose ==
    /\ outcome = "scanning"
    /\ source_iter <= Len(source)
    /\ source[source_iter] = "]"
    /\ bracket_stack # <<>>

\* position of the open marker of the pair being closed
OpeningPc == bracket_stack[Len(bracket_stack)]

\* index in source of that '['
OpeningSrc ==
    LET at == {e[1] : e \in {e \in open_at : e[2] = OpeningPc}}
    IN CHOOSE i \in at : \A k \in at : k <= i

\* the characters of source between the pair being closed
Enclosed == SubSeq(source, OpeningSrc + 1, source_iter - 1)

\* the opcodes emitted since the open marker
EnclosedOps == SubSeq(instructions, OpeningPc + 2, Len(instructions))

\* the close replaced the region from the open marker on by the single opcode insn
ReplacedBy(insn) ==
    /\ outcome' = "scanning"
    /\ instructions' = Append(SubSeq(instructions, 1, OpeningPc), insn)

\* the close kept the region and emitted the pair as resolved jumps
KeptAsJumps ==
    /\ outcome' = "scanning"
    /\ Len(instructions') = Len(instructions) + 1
    /\ instructions'[OpeningPc + 1] = JumpIfDataZero(Len(instructions))
    /\ instructions'[Len(instructions) + 1] = JumpIfDataNotZero(OpeningPc)
    /\ \A k \in 1..Len(instructions) : k # OpeningPc + 1 => instructions'[k] = instructions[k]

----------------------------------------------------------------------------
(* C1: in every Program from_source returns, each JumpIfDataZero at i      *)
(* holds a target j with i < j < len whose opcode is JumpIfDataNotZero(i), *)
(* and each JumpIfDataNotZero at j holds a target i < j whose opcode is    *)
(* JumpIfDataZero(j); no open marker keeps its own position as target.     *)
C1_JumpsPaired ==
    outcome = "ok" =>
        \A i \in 0..(Len(instructions) - 1) :
            LET insn == instructions[i + 1]
            IN /\ insn.op = "JumpIfDataZero" =>
                    /\ i < insn.n
                    /\ insn.n < Len(instructions)
                    /\ instructions[insn.n + 1] = JumpIfDataNotZero(i)
               /\ insn.op = "JumpIfDataNotZero" =>
                    /\ insn.n < i
                    /\ instructions[insn.n + 1] = JumpIfDataZero(i)

\* a returned Program whose outer loop holds a loop that was replaced by one opcode
C1_Witness ==
    /\ outcome = "ok"
    /\ \E i \in 1..Len(instructions), k \in 1..Len(instructions) :
          /\ instructions[i].op = "JumpIfDataZero"
          /\ i < k
          /\ k < instructions[i].n + 1
          /\ instructions[k].op \in {"LoopSetToZero", "LoopMovePtr", "LoopMoveData"}

(* C3: from_source returns a Program exactly when the brackets of the      *)
(* source are balanced, and otherwise fails on the unmatched bracket.      *)
C3_OkIffBalanced ==
    Ended =>
        /\ (outcome = "ok") <=> Balanced(Strip(source))
        /\ ~Balanced(Strip(source)) => outcome \in {"panic_close", "panic_open"}

(* C4: the pc in the panic message is the position of the offending        *)
(* bracket: for an unmatched ']' the panic is raised at the first ']' with *)
(* no open partner and carries the position that ']' was given; for an     *)
(* unmatched '[' it is the position pushed for a '[' that is never closed, *)
(* and of no '[' that was closed; "[" alone fails at position 0.           *)
C4_ErrorPosition ==
    /\ outcome = "panic_close" =>
          /\ err_src \in StrayCloses(source)
          /\ \A j \in StrayCloses(source) : err_src <= j
          /\ err_pc = Len(instructions)
    /\ outcome = "panic_open" =>
          /\ \E e \in open_at : e[2] = err_pc
          /\ \A e \in open_at : e[2] = err_pc => UnmatchedOpen(source, e[1])
    /\ (Ended /\ source = <<"[">>) => (outcome = "panic_open" /\ err_pc = 0)

\* an unmatched '[' reported after an earlier pair was closed
C4_Witness ==
    /\ outcome = "panic_open"
    /\ \E e \in open_at : ~UnmatchedOpen(source, e[1])

(* C6 as stated: from_source gives the same result for a source and for    *)
(* the source with the characters outside the alphabet removed.            *)
C6_StrippedSame ==
    Ended => Returned(CompState) = Returned(from_source(Strip(source), overflow_checks))

(* C6 amended: the same, for every source in which no ignored character    *)
(* lies between two identical run-length symbols.                          *)
C6_StrippedSameUnlessRunSplit ==
    (Ended /\ ~SplitRun(source)) =>
        Returned(CompState) = Returned(from_source(Strip(source), overflow_checks))

\* a Program returned for a source with an ignored character inside a bracket pair
C6_Witness ==
    /\ outcome = "ok"
    /\ ~SplitRun(source)
    /\ \E i \in 1..Len(source) : source[i] \notin InsnChars /\ Depth(source, i) > 0

(* C7: a maximal run of k identical symbols among > < + - is compiled to   *)
(* one opcode whose count is k, whatever k is.                             *)
C7_RunLengthExact ==
    [][(outcome = "scanning" /\ source_iter <= Len(source)
            /\ source[source_iter] \in RunSyms) =>
        LET k == CHOOSE k \in 1..(Len(source) - source_iter + 1) :
                    /\ \A j \in source_iter..(source_iter + k - 1) :
                          source[j] = source[source_iter]
                    /\ (source_iter + k <= Len(source) =>
                          source[source_iter + k] # source[source_iter])
        IN /\ outcome' = "scanning"
           /\ instructions' = Append(instructions, RunOpcode(source[source_iter], k))]_vars

(* C8: a bracket pair that encloses exactly DecData(1) is compiled to one  *)
(* LoopSetToZero and no jump; the opcodes before it are kept, and what is  *)
(* scanned later leaves it in place; "[-]" alone gives a Program of        *)
(* length 1.                                                               *)
C8_ZeroIdiom ==
    /\ [][(AtClose /\ EnclosedOps = <<DecData(1)>>) => ReplacedBy(LoopSetToZero)]_vars
    /\ [][\A p \in 1..Len(instructions) :
            instructions[p] = LoopSetToZero =>
                (Len(instructions') >= p /\ instructions'[p] = LoopSetToZero)]_vars
    /\ []((Ended /\ source = <<"[", "-", "]">>) =>
            (outcome = "ok" /\ instructions = <<LoopSetToZero>>))

\* a returned Program with a LoopSetToZero between other opcodes
C8_Witness ==
    /\ outcome = "ok"
    /\ \E p \in 2..(Len(instructions) - 1) : instructions[p] = LoopSetToZero

----------------------------------------------------------------------------
(* The shape of the characters enclosed by a bracket pair *)

\* index of the last character of the run that starts at i
SegEnd(e, i) ==
    LET stops == {j \in i..Len(e) : e[j] # e[i]} \cup {Len(e) + 1}
    IN (CHOOSE j \in stops : \A k \in stops : j <= k) - 1

NoShape == [ok |-> FALSE, dec |-> 0, first |-> "", n1 |-> 0, inc |-> 0, n2 |-> 0]

\* a run of '-', a run of moves, a run of '+', a run of the opposite moves
TransferShape(e) ==
    IF Len(e) < 4 \/ e[1] # "-" THEN NoShape
    ELSE LET j1 == SegEnd(e, 1)
         IN IF j1 >= Len(e) \/ e[j1 + 1] \notin Moves THEN NoShape
            ELSE LET j2 == SegEnd(e, j1 + 1)
                 IN IF j2 >= Len(e) \/ e[j2 + 1] # "+" THEN NoShape
                    ELSE LET j3 == SegEnd(e, j2 + 1)
                         IN IF j3 >= Len(e) \/ e[j3 + 1] \notin Moves \/ e[j3 + 1] = e[j1 + 1]
                            THEN NoShape
                            ELSE IF SegEnd(e, j3 + 1) # Len(e) THEN NoShape
                            ELSE [ok |-> TRUE, dec |-> j1, first |-> e[j1 + 1],
                                  n1 |-> j2 - j1, inc |-> j3 - j2, n2 |-> Len(e) - j3]

(* C9: a bracket pair that encloses exactly n '>' or n '<' is compiled to  *)
(* the single opcode LoopMovePtr(n, dir), dir rightward for '>', and no    *)
(* jump.                                                                   *)
C9_StrideIdiom ==
    [][(AtClose /\ Len(Enclosed) >= 1 /\ Enclosed[1] \in Moves
            /\ Enclosed = Rep(Enclosed[1], Len(Enclosed))) =>
        ReplacedBy(LoopMovePtr(Len(Enclosed), Enclosed[1] = ">"))]_vars

(* C10: a bracket pair that encloses '-', n moves in direction D, '+',     *)
(* n moves in the opposite direction is compiled to the single opcode      *)
(* LoopMoveData(n, D); when the two moves differ in length, or there is    *)
(* more than one '-' or '+', the pair is emitted as resolved jumps.        *)
C10_TransferIdiom ==
    [][AtClose =>
        LET t == TransferShape(Enclosed)
        IN t.ok =>
            IF t.dec = 1 /\ t.inc = 1 /\ t.n1 = t.n2
            THEN ReplacedBy(LoopMoveData(t.n1, t.first = ">"))
            ELSE KeptAsJumps]_vars

----------------------------------------------------------------------------
(* C2: when the execution of the unoptimized translation ends with the     *)
(* cursor inside the tape throughout, the execution of the compiled        *)
(* Program, once it has stopped, has ended too, with the same output, the  *)
(* same tape and the same cursor.                                          *)
C2_OptimizedAgrees ==
    (ref.status = "done" /\ ~ref.strayed /\ mach.status \notin {"running", "cut"}) =>
        /\ mach.status = "done"
        /\ mach.out = ref.out
        /\ mach.memory = ref.memory
        /\ mach.data_ptr = ref.data_ptr

(* C5: the cursor is inside the tape in every state of an execution, and   *)
(* no opcode completes leaving it outside.                                 *)
C5_CursorInTape ==
    engine # "none" => (InTape(mach.data_ptr) /\ ~mach.strayed)

----------------------------------------------------------------------------
(* Running the peephole pass again over a returned Program *)

IsCollapsed(insn) == insn.op \in {"LoopSetToZero", "LoopMovePtr", "LoopMoveData"}

\* positions (0-based) of the open markers left in prog
OpenMarkers(prog) == {i \in 0..(Len(prog) - 1) : prog[i + 1].op = "JumpIfDataZero"}

\* the opcodes between the open marker at i and its partner
PairSlice(prog, i) == SubSeq(prog, i + 2, prog[i + 1].n)

\* the pairs whose slice the optimizer would replace
Matching(prog) == {i \in OpenMarkers(prog) : optimize_loops(PairSlice(prog, i)) # NoneOp}

\* one more pass: the first pair that matches is replaced by its opcode
Rerun(prog) ==
    IF Matching(prog) = {} THEN prog
    ELSE LET i == CHOOSE i \in Matching(prog) : \A k \in Matching(prog) : i <= k
         IN Append(SubSeq(prog, 1, i), optimize_loops(PairSlice(prog, i)))
            \o SubSeq(prog, prog[i + 1].n + 2, Len(prog))

\* the sequences of 1 to 4 opcodes drawn from ops
SlicesOver(ops) == UNION {[1..k -> ops] : k \in 1..4}

(* C11: in every returned Program the slice between each remaining jump    *)
(* pair matches no idiom, the optimizer returns no match for any slice     *)
(* made of the Program's collapsed opcodes, and one more pass over the     *)
(* Program leaves it unchanged.                                            *)
C11_OptimizeIdempotent ==
    outcome = "ok" =>
        /\ \A i \in OpenMarkers(instructions) :
                optimize_loops(PairSlice(instructions, i)) = NoneOp
        /\ \A s \in SlicesOver({instructions[k] : k \in {k \in 1..Len(instructions) :
                                                        IsCollapsed(instructions[k])}}) :
                optimize_loops(s) = NoneOp
        /\ Rerun(instructions) = instructions

\* a returned Program with a jump pair whose slice is exactly one collapsed opcode
C11_Witness ==
    /\ outcome = "ok"
    /\ \E i \in OpenMarkers(instructions) :
          /\ Len(PairSlice(instructions, i)) = 1
          /\ IsCollapsed(PairSlice(instructions, i)[1])

----------------------------------------------------------------------------
(* One iteration of the execution loop, seen from outside *)

\* the loop of who is about to execute an opcode
Stepping(who) ==
    /\ turn = who
    /\ Machine(who).status = "running"
    /\ Machine(who).pc < Len(Code(who))
    /\ Len(Machine(who).out) < MaxOut

\* the opcode it is about to execute
Fetched(who) == Code(who)[Machine(who).pc + 1]

\* the machine of who after the step
MachineNext(who) == IF who = "opt" THEN mach' ELSE ref'

\* the current cell
Current(m) == Cell(m.memory, m.data_ptr)

\* the step went on to the next opcode and changed at most the current cell, to v
OnlyCurrentSet(who, v) ==
    /\ MachineNext(who).status = "running"
    /\ MachineNext(who).pc = Machine(who).pc + 1
    /\ MachineNext(who).data_ptr = Machine(who).data_ptr
    /\ MachineNext(who).out = Machine(who).out
    /\ Cell(MachineNext(who).memory, Machine(who).data_ptr) = v
    /\ \A i \in (DOMAIN Machine(who).memory \cup DOMAIN MachineNext(who).memory)
                \ {Machine(who).data_ptr} :
            Cell(MachineNext(who).memory, i) = Cell(Machine(who).memory, i)

Both == {"opt", "ref"}

(* C12: with the cursor on a cell of value v, IncData(n) leaves the cell   *)
(* at (v + n) mod 256 and DecData(n) at (v - n) mod 256 and execution goes *)
(* on; nothing else changes; every cell holds a value in 0..255 in every   *)
(* state.                                                                  *)
C12_CellWraps ==
    /\ [][\A who \in Both :
            (Stepping(who) /\ InTape(Machine(who).data_ptr)) =>
                /\ Fetched(who).op = "IncData" =>
                      /\ OnlyCurrentSet(who, (Current(Machine(who)) + Fetched(who).n) % 256)
                      /\ MachineNext(who).stdin = Machine(who).stdin
                /\ Fetched(who).op = "DecData" =>
                      /\ OnlyCurrentSet(who, (Current(Machine(who)) - Fetched(who).n) % 256)
                      /\ MachineNext(who).stdin = Machine(who).stdin]_vars
    /\ [](\A who \in Both : \A i \in DOMAIN Machine(who).memory :
            Machine(who).memory[i] \in 0..255)

\* "-+" has run: the decrement took 0 to 255 and the increment took 255 back to 0
C12_Witness ==
    /\ instructions = <<DecData(1), IncData(1)>>
    /\ mach.pc = 2
    /\ mach.status = "running"
    /\ Current(mach) = 0

(* C13: every WriteStdout appends exactly one byte to the output, the      *)
(* value of the current cell, whatever that value is.                      *)
C13_WriteOneByte ==
    [][\A who \in Both :
        (Stepping(who) /\ InTape(Machine(who).data_ptr)
            /\ Fetched(who).op = "WriteStdout") =>
                MachineNext(who).out = Append(Machine(who).out, Current(Machine(who)))]_vars

(* C14: ReadStdin stores the next unread byte in the current cell and      *)
(* consumes that byte; at the end of input, or when the read fails, it     *)
(* stores 0; in each case execution goes on with the next opcode, and      *)
(* nothing else changes; once the input is exhausted it stays exhausted.   *)
C14_ReadByteOrZero ==
    [][\A who \in Both :
        (Stepping(who) /\ InTape(Machine(who).data_ptr)
            /\ Fetched(who).op = "ReadStdin") =>
                LET in == Machine(who).stdin
                IN /\ in = <<>> =>
                        /\ OnlyCurrentSet(who, 0)
                        /\ MachineNext(who).stdin = <<>>
                   /\ (in # <<>> /\ in[1] >= 0) =>
                        /\ OnlyCurrentSet(who, in[1])
                        /\ MachineNext(who).stdin = SubSeq(in, 2, Len(in))
                   /\ (in # <<>> /\ in[1] < 0) =>
                        /\ OnlyCurrentSet(who, 0)
                        /\ MachineNext(who).stdin = SubSeq(in, 2, Len(in))]_vars

\* a read at the end of input has stored 0 after an earlier read stored a byte
C14_Witness ==
    /\ mach.status = "running"
    /\ mach.pc >= 2
    /\ instructions[1] = ReadStdin
    /\ instructions[mach.pc] = ReadStdin
    /\ mach.stdin = <<>>
    /\ Current(mach) = 0
    /\ \E i \in DOMAIN mach.memory : mach.memory[i] # 0

----------------------------------------------------------------------------
(* The regions of allocate_code *)

Region(r) == regions[r]

AllRegions == 1..Len(regions)

\* the regions whose pointer allocate_code has returned
Returned_ == {results[k].region : k \in {k \in 1..Len(results) : results[k].how = "ok"}}

\* the regions of the calls that panicked
Failed == {results[k].region : k \in {k \in 1..Len(results) : results[k].how # "ok"}} \ {0}

(* C15: no region is writable and executable at once: a mapped region is   *)
(* read+write without execute or read+execute without write; a region      *)
(* that is executable holds the code bytes (the copy came first); a region *)
(* is handed out only mapped read+execute with the code in it.             *)
C15_NeverWritableAndExecutable ==
    /\ \A r \in AllRegions :
          /\ Region(r).mapped => Region(r).prot \in {{"R", "W"}, {"R", "X"}}
          /\ "X" \in Region(r).prot => Region(r).bytes = Region(r).code
    /\ \A h \in handles \cup Returned_ :
          /\ Region(h).prot = {"R", "X"}
          /\ Region(h).bytes = Region(h).code
    /\ load.at \in {"copy", "mprotect", "munmap"} => load.p \notin handles \cup Returned_

\* one region handed out, the next one mapped read+write with its code copied in
C15_Witness ==
    /\ handles # {}
    /\ load.at = "mprotect"
    /\ Region(load.p).prot = {"R", "W"}
    /\ Region(load.p).bytes = load.code

(* C16: every region allocate_code returned is unmapped exactly once, when *)
(* its pointer is dropped: while the pointer is held the region is mapped  *)
(* and was never unmapped, and once it is dropped the region has been      *)
(* unmapped once.                                                          *)
C16_UnmappedOnceOnDrop ==
    /\ \A h \in handles : Region(h).mapped /\ Region(h).unmaps = 0
    /\ \A d \in dropped : ~Region(d).mapped /\ Region(d).unmaps = 1

(* C17: a refused mmap or mprotect ends the call in a panic that returns   *)
(* no pointer; after a refused mprotect the region is unmapped before the  *)
(* panic, so no region of a failed call is mapped; no step of a call       *)
(* changes a region of another call.                                       *)
C17_FailedLoadLeavesNothing ==
    /\ [](\A f \in Failed :
            /\ ~Region(f).mapped
            /\ Region(f).unmaps = 1
            /\ f \notin handles \cup dropped)
    /\ [](Len(regions) = Cardinality(Returned_) + Cardinality(Failed)
                            + (IF load.at = "idle" THEN 0 ELSE 1))
    /\ [][load.at = "munmap" =>
            /\ ~regions'[load.p].mapped
            /\ results' = Append(results, [how |-> "panic_mprotect", region |-> load.p])
            /\ handles' = handles]_vars
    /\ [][\A r \in AllRegions : r # load.p => regions'[r] = regions[r]]_vars

\* a call has failed at mprotect while the pointer of an earlier call is held and valid
C17_Witness ==
    /\ \E k \in 1..Len(results) : results[k].how = "panic_mprotect"
    /\ \E k \in 1..Len(results) : results[k].how = "panic_mmap"
    /\ \E h \in handles : Region(h).mapped

----------------------------------------------------------------------------
(* LoopMoveData seen from outside *)

\* the cell stride away from the cursor in the opcode's direction
TargetOf(m, insn) == IF insn.positive THEN m.data_ptr + insn.n ELSE m.data_ptr - insn.n

\* the step changed nothing but the program counter, which went on by one
NoOpStep(who) == MachineNext(who) = [Machine(who) EXCEPT !.pc = @ + 1]

(* C18: LoopMoveData(n, dir) executed on a cell of value s # 0, with the   *)
(* cell n away in direction dir inside the tape and holding t, leaves that *)
(* cell at (t + s) mod 256 and the current cell at 0 and execution goes    *)
(* on, also when t + s >= 256; the cursor and every other cell are         *)
(* unchanged.                                                              *)
C18_TransferAddsWrapping ==
    [][\A who \in Both :
        (Stepping(who) /\ Fetched(who).op = "LoopMoveData" /\ Fetched(who).n > 0
            /\ InTape(Machine(who).data_ptr) /\ Current(Machine(who)) # 0
            /\ InTape(TargetOf(Machine(who), Fetched(who)))) =>
                LET m == Machine(who)
                    to == TargetOf(m, Fetched(who))
                    after == MachineNext(who)
                IN /\ after.status = "running"
                   /\ after.pc = m.pc + 1
                   /\ after.data_ptr = m.data_ptr
                   /\ after.out = m.out
                   /\ after.stdin = m.stdin
                   /\ Cell(after.memory, to) = (Cell(m.memory, to) + Current(m)) % 256
                   /\ Cell(after.memory, m.data_ptr) = 0
                   /\ \A i \in (DOMAIN m.memory \cup DOMAIN after.memory) \ {to, m.data_ptr} :
                         Cell(after.memory, i) = Cell(m.memory, i)]_vars

(* C19: LoopMoveData(n, dir) executed on a cell of value 0 changes         *)
(* nothing and raises no failure, wherever the cursor is in the tape, also *)
(* where the cell n away would lie outside the tape.                       *)
C19_TransferOfZeroIsNoOp ==
    [][\A who \in Both :
        (Stepping(who) /\ Fetched(who).op = "LoopMoveData"
            /\ InTape(Machine(who).data_ptr) /\ Current(Machine(who)) = 0) =>
                NoOpStep(who)]_vars

(* C20: an execution starts with pc 0, cursor 0 and an all-zero tape; a    *)
(* step that does not fail leaves pc one past the opcode it executed,      *)
(* except that JumpIfDataZero(t) on a zero cell and JumpIfDataNotZero(t)   *)
(* on a non-zero cell leave it at t + 1; a jump changes nothing but pc;    *)
(* the execution ends exactly when pc is the length of the Program.        *)
C20_ControlFlow ==
    /\ \A who \in Both :
          Machine(who).pc = 0 /\ Machine(who).data_ptr = 0 /\ Machine(who).memory = <<>>
    /\ [][\A who \in Both :
            (Stepping(who) /\ MachineNext(who).status = "running") =>
                LET m == Machine(who)
                    insn == Fetched(who)
                    taken == \/ insn.op = "JumpIfDataZero" /\ Current(m) = 0
                             \/ insn.op = "JumpIfDataNotZero" /\ Current(m) # 0
                IN /\ MachineNext(who).pc = IF taken THEN insn.n + 1 ELSE m.pc + 1
                   /\ IsJump(insn) =>
                        MachineNext(who) = [m EXCEPT !.pc = MachineNext(who).pc]]_vars
    /\ [][\A who \in Both :
            (Stepping(who) /\ IsJump(Fetched(who)) /\ InTape(Machine(who).data_ptr)) =>
                MachineNext(who).status = "running"]_vars
    /\ [][\A who \in Both : 
            (turn = who /\ Machine(who).status = "running") =>
                ((MachineNext(who).status = "done") <=> (Machine(who).pc = Len(Code(who))))]_vars
    /\ [](\A who \in Both :
            /\ Machine(who).pc <= Len(Code(who))
            /\ Machine(who).status = "done" => Machine(who).pc = Len(Code(who)))

\* "+[.]": the close was taken after the first write and execution resumed one past the open
C20_Witness ==
    /\ instructions = <<IncData(1), JumpIfDataZero(3), WriteStdout, JumpIfDataNotZero(1)>>
    /\ mach.status = "running"
    /\ mach.pc = 2
    /\ mach.out = <<1>>

----------------------------------------------------------------------------
(* LoopMovePtr seen from outside *)

\* the cell the cursor is on after k strides
Stride(m, insn, k) ==
    IF insn.positive THEN m.data_ptr + k * insn.n ELSE m.data_ptr - k * insn.n

\* the k for which the cell after k strides is inside the tape and holds 0,
\* every earlier cell on the stride being inside the tape and non-zero.
\* A stride meets each non-zero cell at most once (or stays on one cell
\* when n = 0), so no k beyond the number of non-zero cells qualifies.
Landings(m, insn) ==
    {k \in 0..Cardinality(DOMAIN m.memory) :
        /\ InTape(Stride(m, insn, k))
        /\ Cell(m.memory, Stride(m, insn, k)) = 0
        /\ \A j \in 0..(k - 1) :
              InTape(Stride(m, insn, j)) /\ Cell(m.memory, Stride(m, insn, j)) # 0}

(* C21: LoopMovePtr(n, dir) executed from cursor c completes exactly when  *)
(* some k >= 0 has the cell at c +/- k*n inside the tape and 0 with every  *)
(* earlier cell of the stride inside the tape and non-zero; the cursor is  *)
(* then on the cell of the smallest such k (where it was when k = 0), and  *)
(* the tape, the input and the output are unchanged.                       *)
C21_ShiftStopsAtFirstZero ==
    [][\A who \in Both :
        (Stepping(who) /\ Fetched(who).op = "LoopMovePtr") =>
            LET m == Machine(who)
                ks == Landings(m, Fetched(who))
            IN /\ (MachineNext(who).status = "running") <=> (ks # {})
               /\ ks # {} =>
                    LET k == CHOOSE k \in ks : \A j \in ks : k <= j
                    IN MachineNext(who) =
                          [m EXCEPT !.pc = @ + 1,
                                    !.data_ptr = Stride(m, Fetched(who), k),
                                    !.strayed = MachineNext(who).strayed]]_vars

\* "+>-<[>]" has run: the cursor passed two non-zero cells and stopped on the third
C21_Witness ==
    /\ mach.status = "running"
    /\ mach.pc = Len(instructions)
    /\ mach.pc >= 1
    /\ instructions[mach.pc] = LoopMovePtr(1, TRUE)
    /\ mach.data_ptr = 2
    /\ Cell(mach.memory, 0) # 0
    /\ Cell(mach.memory, 1) # 0

(* C22: every IncPtr, DecPtr, IncData and DecData and every LoopMovePtr    *)
(* and LoopMoveData of a returned Program carries a count of at least 1,   *)
(* whatever the lengths of the runs of the source.                         *)
C22_CountsAtLeastOne ==
    outcome = "ok" =>
        \A p \in 1..Len(instructions) :
            instructions[p].op \in {"IncPtr", "DecPtr", "IncData", "DecData",
                                    "LoopMovePtr", "LoopMoveData"}
                => instructions[p].n >= 1

(* C23: in every state of the scan the bracket stack holds strictly        *)
(* increasing positions below the length of the opcode sequence, each the  *)
(* position of a JumpIfDataZero whose target is that position; no step     *)
(* changes the opcode at a position that stays on the stack; the stack is  *)
(* empty when a Program is returned.                                       *)
C23_StackOfPlaceholders ==
    /\ [](/\ \A i \in 1..Len(bracket_stack) :
                /\ bracket_stack[i] < Len(instructions)
                /\ instructions[bracket_stack[i] + 1] = JumpIfDataZero(bracket_stack[i])
                /\ i > 1 => bracket_stack[i - 1] < bracket_stack[i]
           /\ outcome = "ok" => bracket_stack = <<>>)
    /\ [][\A i \in 1..Len(bracket_stack') :
            (i <= Len(bracket_stack) /\ bracket_stack'[i] = bracket_stack[i]) =>
                /\ Len(instructions') > bracket_stack[i]
                /\ instructions'[bracket_stack[i] + 1] = instructions[bracket_stack[i] + 1]]_vars
    /\ [][Len(bracket_stack') <= Len(bracket_stack) =>
            bracket_stack' = SubSeq(bracket_stack, 1, Len(bracket_stack'))]_vars

\* an inner loop has just been replaced by one opcode right after an open marker still on the stack
C23_Witness ==
    /\ outcome = "scanning"
    /\ bracket_stack # <<>>
    /\ Len(instructions) >= 2
    /\ IsCollapsed(instructions[Len(instructions)])
    /\ bracket_stack[Len(bracket_stack)] = Len(instructions) - 2

=============================================================================
